---- MODULE Spec2Model ----
(***************************************************************************)
(* Model of bmpc_jax/world_model.py: the WorldModel aggregate, its factory *)
(* `create`, the five public operations (encode, next, reward,             *)
(* sample_actions, V) and the training-side steps a trainer applies to the *)
(* heads (TrainState.apply_gradients through each head's optimizer chain,  *)
(* and the EMA blend of the target value head).                            *)
(*                                                                         *)
(* Numbers are fixed-point: the integer v stands for the real v / SCALE.   *)
(* Three integers outside the finite range stand for the IEEE values       *)
(* +inf, -inf and NaN; arithmetic on them follows IEEE-754.                *)
(***************************************************************************)
EXTENDS Integers, Sequences, FiniteSets, TLC

VARIABLES pc, wm, z, ret, nsteps, ema_applied

vars == <<pc, wm, z, ret, nsteps, ema_applied>>

-----------------------------------------------------------------------------
(* Bounds of the model.                                                    *)

MaxKey == 1
MaxLatent == 4
MaxBins == 2
MaxSteps == 2

-----------------------------------------------------------------------------
(* Floating point.                                                         *)

SCALE == 100
FMAX == 30000
PInf == FMAX + 10000
NInf == -PInf
NaN == FMAX + 20000

MIN_LOG_STD == -5
MAX_LOG_STD == 1

IsNaN(x) == x = NaN
IsInf(x) == x = PInf \/ x = NInf
IsFinite(x) == x >= -FMAX /\ x <= FMAX
AllFinite(v) == \A i \in 1..Len(v) : IsFinite(v[i])

Abs(x) == IF x < 0 THEN -x ELSE x
Sign(x) == IF x > 0 THEN 1 ELSE IF x < 0 THEN -1 ELSE 0
\* integer division rounding toward zero, y > 0
DivT(x, y) == IF x >= 0 THEN x \div y ELSE -((-x) \div y)
\* a finite result that leaves the representable range overflows to infinity
Round(x) == IF x > FMAX THEN PInf ELSE IF x < -FMAX THEN NInf ELSE x

FNeg(a) == IF IsNaN(a) THEN NaN ELSE -a

FAdd(a, b) ==
  IF IsNaN(a) \/ IsNaN(b) THEN NaN
  ELSE IF IsInf(a) THEN (IF IsInf(b) /\ a # b THEN NaN ELSE a)
  ELSE IF IsInf(b) THEN b
  ELSE Round(a + b)

FSub(a, b) == FAdd(a, FNeg(b))

FMul(a, b) ==
  IF IsNaN(a) \/ IsNaN(b) THEN NaN
  ELSE IF IsInf(a) \/ IsInf(b)
       THEN (IF a = 0 \/ b = 0 THEN NaN
             ELSE IF Sign(a) * Sign(b) > 0 THEN PInf ELSE NInf)
  ELSE Round(DivT(a * b, SCALE))

FDiv(a, b) ==
  IF IsNaN(a) \/ IsNaN(b) THEN NaN
  ELSE IF IsInf(a) THEN (IF IsInf(b) THEN NaN
                         ELSE IF Sign(a) * (IF b < 0 THEN -1 ELSE 1) > 0
                              THEN PInf ELSE NInf)
  ELSE IF IsInf(b) THEN 0
  ELSE IF b = 0 THEN (IF a = 0 THEN NaN ELSE IF a > 0 THEN PInf ELSE NInf)
  ELSE Round(Sign(b) * DivT(a * SCALE, Abs(b)))

\* IEEE comparison: any comparison with NaN is false
FLt(a, b) == ~IsNaN(a) /\ ~IsNaN(b) /\ a < b

RECURSIVE ISqrtIter(_, _, _)
ISqrtIter(n, lo, hi) ==
  IF lo >= hi THEN lo
  ELSE LET mid == (lo + hi + 1) \div 2
       IN IF mid * mid <= n THEN ISqrtIter(n, mid, hi)
          ELSE ISqrtIter(n, lo, mid - 1)

\* square root of a fixed-point value: sqrt(a/S)*S = sqrt(a*S)
FSqrt(a) ==
  IF IsNaN(a) \/ a < 0 THEN NaN
  ELSE IF a = PInf THEN PInf
  ELSE ISqrtIter(a * SCALE, 0, 2000)

\* e^k for k = -6 .. 3, in units of 1/SCALE
ExpTab == <<0, 1, 2, 5, 14, 37, 100, 272, 739, 2009>>
ExpAt(k) == ExpTab[k + 7]

\* exp of a finite value: linear interpolation between the integer knots
Exp(x) ==
  IF x < -6 * SCALE THEN 0
  ELSE IF x >= 3 * SCALE THEN ExpAt(3)
  ELSE LET k == x \div SCALE
           r == x - k * SCALE
       IN ExpAt(k) + ((ExpAt(k + 1) - ExpAt(k)) * r) \div SCALE

\* natural logarithm: log(0) = -inf, log of a negative number is NaN
Log(x) ==
  IF IsNaN(x) \/ x < 0 THEN NaN
  ELSE IF x = 0 THEN NInf
  ELSE IF x = PInf THEN PInf
  ELSE IF x >= ExpAt(3) THEN 3 * SCALE
  ELSE LET k == CHOOSE j \in -5..2 : ExpAt(j) <= x /\ x < ExpAt(j + 1)
       IN k * SCALE + ((x - ExpAt(k)) * SCALE) \div (ExpAt(k + 1) - ExpAt(k))

TanhTab == <<0, 76, 96, 100>>
Tanh(x) ==
  LET a == Abs(x)
      k == a \div SCALE
      r == a - k * SCALE
      t == IF k >= 3 THEN SCALE
           ELSE TanhTab[k + 1] + ((TanhTab[k + 2] - TanhTab[k + 1]) * r) \div SCALE
  IN Sign(x) * t

RECURSIVE SumSeq(_)
SumSeq(s) == IF s = <<>> THEN 0 ELSE s[1] + SumSeq(Tail(s))

RECURSIVE MaxSeq(_)
MaxSeq(s) ==
  IF Len(s) = 1 THEN s[1]
  ELSE LET m == MaxSeq(Tail(s)) IN IF s[1] > m THEN s[1] ELSE m

Clip(x, lo, hi) == IF x < lo THEN lo ELSE IF x > hi THEN hi ELSE x

\* jax.nn.softmax over a vector of finite logits
Softmax(v) ==
  LET m == MaxSeq(v)
      e == [i \in 1..Len(v) |-> Exp(v[i] - m)]
      s == SumSeq(e)
  IN [i \in 1..Len(v) |-> (e[i] * SCALE) \div s]

-----------------------------------------------------------------------------
(* Helpers of the repository that world_model.py imports.                  *)

\* common.util.symlog: sign(x) * log(1 + |x|)
symlog(x) == Sign(x) * Log(SCALE + Abs(x))

\* inverse of symlog: sign(x) * (exp(|x|) - 1)
symexp(x) == Sign(x) * (Exp(Abs(x)) - SCALE)

\* simnorm reshapes its input to (-1, simplex_dim); the reshape raises when
\* the length is not a multiple of simplex_dim
ReshapeOk(n, simplex_dim) == n % simplex_dim = 0

\* common.activations.simnorm: softmax within consecutive groups
simnorm(x, simplex_dim) ==
  [i \in 1..Len(x) |->
     LET b0 == ((i - 1) \div simplex_dim) * simplex_dim
     IN Softmax(SubSeq(x, b0 + 1, b0 + simplex_dim))[i - b0]]

\* jnp.linspace(low, high, num_bins); a single bin is [low]
Linspace(low, high, n) ==
  [i \in 1..n |-> IF n = 1 THEN low ELSE low + DivT((high - low) * (i - 1), n - 1)]

\* common.util.two_hot_inv: softmax, expectation over the bins, symexp
two_hot_inv(logits, low, high, num_bins) ==
  LET bins == Linspace(low, high, num_bins)
      p == Softmax(logits)
      x == SumSeq([i \in 1..num_bins |-> DivT(p[i] * bins[i], SCALE)])
  IN symexp(x)

-----------------------------------------------------------------------------
(* Networks.  A module's apply function is a deterministic function of its *)
(* parameters, its input and (with dropout) the dropout key.  fn describes *)
(* the module: output width, dropout rate, ensemble size (0: no ensemble). *)

PDim == 2
LogitLim == 3 * SCALE

Keys == 0..MaxKey

\* jax.random.split(key, n)
Split(key, n) == [i \in 1..n |-> key * n + i]

\* module.init(key, dummy_input)['params'] for a module with n leaves
InitParams(key, n) == [i \in 1..n |-> (((key * 3 + i) % 7) - 3) * 25]

Digest(x) == DivT(SumSeq([i \in 1..Len(x) |-> i * x[i]]), Len(x))

\* one feed-forward stack: the hidden unit is dropped (or kept and rescaled)
\* under dropout, then the final affine layer with weights -1, 0, 1 times
\* params[1] and biases j/2 times params[2]
Net(params, x, out, dropout, key) ==
  LET d == Digest(x)
      h == IF dropout = 0 THEN d
           ELSE IF key % 2 = 1 THEN 0
           ELSE DivT(d * SCALE, SCALE - dropout)
  IN [j \in 1..out |->
        Clip(((((j * (j + 1)) \div 2) % 3) - 1) * DivT(params[1] * h, SCALE)
             + DivT(params[2] * j, 2),
             -LogitLim, LogitLim)]

\* module.apply({'params': params}, x, rngs={'dropout': key})
ApplyFn(fn, params, x, key) ==
  IF fn.num = 0 THEN Net(params, x, fn.out, fn.dropout, key)
  ELSE [m \in 1..fn.num |->
          Net(SubSeq(params, (m - 1) * PDim + 1, m * PDim), x,
              fn.out, fn.dropout, key + m)]

Module(out, dropout, num) == [out |-> out, dropout |-> dropout, num |-> num]

-----------------------------------------------------------------------------
(* Optimizers and TrainState.                                              *)

Zeros(n) == [i \in 1..n |-> 0]

\* optax.chain(zero_nans(), clip_by_global_norm(max_grad_norm), adamw(lr))
ChainTx(max_grad_norm, learning_rate) ==
  [kind |-> "chain", max_norm |-> max_grad_norm, lr |-> learning_rate]

\* optax.GradientTransformation(lambda _: None, lambda _: None)
NoopTx == [kind |-> "noop", max_norm |-> 0, lr |-> 0]

\* tx.init(params)
TxInit(tx, params) ==
  IF tx.kind = "chain"
  THEN [none |-> FALSE, found_nan |-> FALSE, count |-> 0,
        mu |-> Zeros(Len(params)), nu |-> Zeros(Len(params))]
  ELSE [none |-> TRUE, found_nan |-> FALSE, count |-> 0,
        mu |-> <<>>, nu |-> <<>>]

\* TrainState.create(apply_fn, params, tx)
TrainStateCreate(fn, params, tx) ==
  [step |-> 0, apply_fn |-> fn, params |-> params, tx |-> tx,
   opt_state |-> TxInit(tx, params)]

\* continue_model = None
NoHead ==
  [step |-> 0, apply_fn |-> Module(0, 0, 0), params |-> <<>>,
   tx |-> [kind |-> "none", max_norm |-> 0, lr |-> 0],
   opt_state |-> TxInit(NoopTx, <<>>)]

\* the externally supplied encoder head
EncoderState(latent_dim) ==
  TrainStateCreate(Module(latent_dim, 50, 0), <<100, 50>>, ChainTx(200, 10))

-----------------------------------------------------------------------------
(* WorldModel.create                                                       *)

\* a target head initialised on its own instead of copied
TargetInitParams_Fresh(value_params, value_key) ==
  InitParams(value_key, Len(value_params))

\* params of the target value head: copy.deepcopy(value_model.params)
TargetInitParams(value_params, value_key) == value_params

create(cfg, encoder, key) ==
  LET ks == Split(key, 5)
      dynamics_key == ks[1]
      reward_key == ks[2]
      value_key == ks[3]
      policy_key == ks[4]
      continue_key == ks[5]
      tx == ChainTx(cfg.max_grad_norm, cfg.learning_rate)
      value_param_key == Split(value_key, 2)[1]
      value_ensemble == Module(cfg.num_bins, cfg.value_dropout, cfg.num_value_nets)
      value_model ==
        TrainStateCreate(value_ensemble,
                         InitParams(value_param_key, PDim * cfg.num_value_nets), tx)
  IN [encoder |-> encoder,
      dynamics_model |->
        TrainStateCreate(Module(cfg.latent_dim, 0, 0), InitParams(dynamics_key, PDim), tx),
      reward_model |->
        TrainStateCreate(Module(cfg.num_bins, 0, 0), InitParams(reward_key, PDim), tx),
      policy_model |->
        TrainStateCreate(Module(2 * cfg.action_dim, 0, 0), InitParams(policy_key, PDim), tx),
      value_model |-> value_model,
      target_value_model |->
        TrainStateCreate(value_ensemble,
                         TargetInitParams(value_model.params, value_key), NoopTx),
      continue_model |->
        IF cfg.predict_continues
        THEN TrainStateCreate(Module(1, 0, 0), InitParams(continue_key, PDim), tx)
        ELSE NoHead,
      action_dim |-> cfg.action_dim,
      latent_dim |-> cfg.latent_dim,
      simnorm_dim |-> cfg.simnorm_dim,
      num_value_nets |-> cfg.num_value_nets,
      num_bins |-> cfg.num_bins,
      symlog_min |-> cfg.symlog_min,
      symlog_max |-> cfg.symlog_max,
      predict_continues |-> cfg.predict_continues,
      symlog_obs |-> cfg.symlog_obs]

\* the configurations the factory is called with
Configs ==
  [action_dim : {2},
   latent_dim : 3..MaxLatent,
   value_dropout : {50},
   num_value_nets : {2},
   num_bins : 1..MaxBins,
   symlog_min : {-200},
   symlog_max : {200},
   simnorm_dim : {2},
   predict_continues : BOOLEAN,
   symlog_obs : BOOLEAN,
   learning_rate : {10},
   max_grad_norm : {200}]

NoModel == [created |-> FALSE]
NoRet == [op |-> "none"]

Init ==
  /\ pc = "start"
  /\ wm = NoModel
  /\ z = <<>>
  /\ ret = NoRet
  /\ nsteps = 0
  /\ ema_applied = FALSE

Create ==
  /\ pc = "start"
  /\ \E cfg \in Configs, key \in Keys :
       /\ wm' = create(cfg, EncoderState(cfg.latent_dim), key)
       /\ ret' = [op |-> "create", cfg |-> cfg, key |-> key]
  /\ pc' = "ready"
  /\ UNCHANGED <<z, nsteps, ema_applied>>

-----------------------------------------------------------------------------
(* The five public operations.                                             *)

\* observations, actions and parameter structures the callers pass in
ObsSet == {<<0, 0>>, <<150, -300>>}
ActionSet(action_dim) == {[i \in 1..action_dim |-> a * i] : a \in {-50, 50}}
ParamSet(n) ==
  {[i \in 1..n |-> IF i % 2 = 1 THEN p[1] ELSE p[2]] : p \in {<<-50, 100>>}}
StdScales == {0, SCALE}

\* WorldModel.encode, up to the call of simnorm
encode_raw(self, obs, params, key) ==
  LET o == IF self.symlog_obs THEN [i \in 1..Len(obs) |-> symlog(obs[i])] ELSE obs
  IN ApplyFn(self.encoder.apply_fn, params, o, key)

encode(self, obs, params, key) ==
  simnorm(encode_raw(self, obs, params, key), self.simnorm_dim)

\* WorldModel.next, up to the call of simnorm
next_raw(self, zz, a, params) ==
  ApplyFn(self.dynamics_model.apply_fn, params, zz \o a, 0)

\* the dynamics output returned without the projection
next_NoSimnorm(self, zz, a, params) == next_raw(self, zz, a, params)

next(self, zz, a, params) ==
  simnorm(next_raw(self, zz, a, params), self.simnorm_dim)

\* the scalar decoded with the bounds in the wrong order
reward_SwappedBounds(self, zz, a, params) ==
  LET logits == ApplyFn(self.reward_model.apply_fn, params, zz \o a, 0)
  IN [reward |-> two_hot_inv(logits, self.symlog_max, self.symlog_min, self.num_bins),
      logits |-> logits]

reward(self, zz, a, params) ==
  LET logits == ApplyFn(self.reward_model.apply_fn, params, zz \o a, 0)
  IN [reward |-> two_hot_inv(logits, self.symlog_min, self.symlog_max, self.num_bins),
      logits |-> logits]

\* standard normal draw of dist.sample(seed=key), per coordinate
Noise(key, i) == (((key * 3 + i * 2) % 5) - 2) * 60

\* 0.5 * log(2 * pi)
HalfLog2Pi == 92

RECURSIVE FSum(_)
FSum(s) == IF s = <<>> THEN 0 ELSE FAdd(s[1], FSum(Tail(s)))

\* tfd.MultivariateNormalDiag(loc, scale_diag).sample(seed=key)
MvnSample(loc, scale_diag, key) ==
  [i \in 1..Len(loc) |-> FAdd(loc[i], FMul(scale_diag[i], Noise(key, i)))]

\* tfd.MultivariateNormalDiag(loc, scale_diag).log_prob(x): the standard
\* normal density of (x - loc) / scale, minus log |det scale|
MvnLogProb(loc, scale_diag, x) ==
  LET u == [i \in 1..Len(loc) |-> FDiv(FSub(x[i], loc[i]), scale_diag[i])]
      base == FSum([i \in 1..Len(loc) |->
                      FSub(FNeg(FMul(SCALE \div 2, FMul(u[i], u[i]))), HalfLog2Pi)])
      logdet == FSum([i \in 1..Len(loc) |-> Log(Abs(scale_diag[i]))])
  IN FSub(base, logdet)

FClip(x, lo, hi) == IF IsNaN(x) THEN NaN ELSE Clip(x, lo, hi)

\* the standard deviation not multiplied by std_scale
sample_actions_IgnoreScale(self, zz, params, std_scale, key) ==
  LET out == ApplyFn(self.policy_model.apply_fn, params, zz, 0)
      n == Len(out) \div 2
      mean == [i \in 1..n |-> Tanh(out[i])]
      log_std == [i \in 1..n |->
                    MIN_LOG_STD * SCALE
                    + DivT((MAX_LOG_STD - MIN_LOG_STD) * (Tanh(out[n + i]) + SCALE), 2)]
      std == [i \in 1..n |-> Exp(log_std[i])]
      action == MvnSample(mean, std, key)
      log_probs == MvnLogProb(mean, std, action)
  IN [action |-> [i \in 1..n |-> FClip(action[i], -SCALE, SCALE)],
      mean |-> mean, log_std |-> log_std, log_probs |-> log_probs]

sample_actions(self, zz, params, std_scale, key) ==
  LET out == ApplyFn(self.policy_model.apply_fn, params, zz, 0)
      n == Len(out) \div 2
      mean == [i \in 1..n |-> Tanh(out[i])]
      log_std == [i \in 1..n |->
                    MIN_LOG_STD * SCALE
                    + DivT((MAX_LOG_STD - MIN_LOG_STD) * (Tanh(out[n + i]) + SCALE), 2)]
      std == [i \in 1..n |-> FMul(std_scale, Exp(log_std[i]))]
      action == MvnSample(mean, std, key)
      log_probs == MvnLogProb(mean, std, action)
  IN [action |-> [i \in 1..n |-> FClip(action[i], -SCALE, SCALE)],
      mean |-> mean, log_std |-> log_std, log_probs |-> log_probs]

V(self, zz, params, key) ==
  LET logits == ApplyFn(self.value_model.apply_fn, params, zz, key)
  IN [V |-> [m \in 1..Len(logits) |->
               two_hot_inv(logits[m], self.symlog_min, self.symlog_max, self.num_bins)],
      logits |-> logits]

Encode ==
  /\ pc = "ready"
  /\ \E obs \in ObsSet, key \in Keys,
        params \in ParamSet(PDim) \cup {wm.encoder.params} :
       LET raw == encode_raw(wm, obs, params, key)
       IN IF ReshapeOk(Len(raw), wm.simnorm_dim)
          THEN /\ z' = encode(wm, obs, params, key)
               /\ ret' = [op |-> "encode", raised |-> FALSE, z |-> z']
          ELSE /\ z' = z
               /\ ret' = [op |-> "encode", raised |-> TRUE, z |-> <<>>]
  /\ UNCHANGED <<pc, wm, nsteps, ema_applied>>

NextLatent ==
  /\ pc = "ready"
  /\ z # <<>>
  /\ \E a \in ActionSet(wm.action_dim),
        params \in ParamSet(PDim) \cup {wm.dynamics_model.params} :
       LET raw == next_raw(wm, z, a, params)
       IN IF ReshapeOk(Len(raw), wm.simnorm_dim)
          THEN /\ z' = next(wm, z, a, params)
               /\ ret' = [op |-> "next", raised |-> FALSE, z |-> z']
          ELSE /\ z' = z
               /\ ret' = [op |-> "next", raised |-> TRUE, z |-> <<>>]
  /\ UNCHANGED <<pc, wm, nsteps, ema_applied>>

Reward ==
  /\ pc = "ready"
  /\ z # <<>>
  /\ \E a \in ActionSet(wm.action_dim),
        params \in ParamSet(PDim) \cup {wm.reward_model.params} :
       LET r == reward(wm, z, a, params)
       IN ret' = [op |-> "reward", raised |-> FALSE, params |-> params,
                  reward |-> r.reward, logits |-> r.logits]
  /\ UNCHANGED <<pc, wm, z, nsteps, ema_applied>>

SampleActions ==
  /\ pc = "ready"
  /\ z # <<>>
  /\ \E params \in ParamSet(PDim) \cup {wm.policy_model.params},
        std_scale \in StdScales, key \in Keys :
       LET s == sample_actions(wm, z, params, std_scale, key)
       IN ret' = [op |-> "sample_actions", raised |-> FALSE,
                  params |-> params, std_scale |-> std_scale, key |-> key,
                  action |-> s.action, mean |-> s.mean,
                  log_std |-> s.log_std, log_probs |-> s.log_probs]
  /\ UNCHANGED <<pc, wm, z, nsteps, ema_applied>>

\* V keeping the parameters it was called with in the model
Value_StoresParams ==
  /\ pc = "ready"
  /\ z # <<>>
  /\ \E key \in Keys,
        params \in ParamSet(PDim * wm.num_value_nets) \cup {wm.value_model.params} :
       LET v == V(wm, z, params, key)
       IN /\ ret' = [op |-> "V", raised |-> FALSE, params |-> params,
                     V |-> v.V, logits |-> v.logits]
          /\ wm' = [wm EXCEPT !.value_model.params = params]
  /\ UNCHANGED <<pc, z, nsteps, ema_applied>>

Value ==
  /\ pc = "ready"
  /\ z # <<>>
  /\ \E key \in Keys,
        params \in ParamSet(PDim * wm.num_value_nets) \cup {wm.value_model.params} :
       LET v == V(wm, z, params, key)
       IN ret' = [op |-> "V", raised |-> FALSE, params |-> params,
                  V |-> v.V, logits |-> v.logits]
  /\ UNCHANGED <<pc, wm, z, nsteps, ema_applied>>

Next == Create \/ Encode \/ NextLatent \/ Reward \/ SampleActions \/ Value

Spec == Init /\ [][Next]_vars

-----------------------------------------------------------------------------
(* Gradient steps: TrainState.apply_gradients through the head's tx.       *)

\* optax.zero_nans: jnp.where(jnp.isnan(p), 0, p)
zero_nans(updates) ==
  [i \in 1..Len(updates) |-> IF IsNaN(updates[i]) THEN 0 ELSE updates[i]]

\* optax.global_norm
global_norm(updates) ==
  FSqrt(FSum([i \in 1..Len(updates) |-> FMul(updates[i], updates[i])]))

\* optax.clip_by_global_norm: select(g_norm < max_norm, t, (t / g_norm) * max_norm)
clip_by_global_norm(updates, max_norm) ==
  LET g_norm == global_norm(updates)
      trigger == FLt(g_norm, max_norm)
  IN [i \in 1..Len(updates) |->
        IF trigger THEN updates[i]
        ELSE FMul(FDiv(updates[i], g_norm), max_norm)]

\* optax.adamw hyper-parameters: b1 = 0.9, b2 = 0.999, weight_decay = 1e-4.
\* The second moment is kept in units of 1e-7 (1 / (SCALE^2 * 1000)) so that
\* (1 - b2) * g^2 is exact; a negative second moment stands for NaN.
NuNaN == -1

RECURSIVE B1Pow(_)
B1Pow(t) == IF t = 0 THEN SCALE ELSE (B1Pow(t - 1) * 90) \div SCALE

\* b2^t in units of 1e-6
RECURSIVE B2Pow(_)
B2Pow(t) == IF t = 0 THEN 1000000 ELSE (B2Pow(t - 1) \div 1000) * 999

AdamMu(mu, g) == FAdd(FMul(90, mu), FMul(10, g))

AdamNu(nu, g) ==
  IF nu = NuNaN \/ ~IsFinite(g) THEN NuNaN ELSE nu - nu \div 1000 + g * g

\* mu_hat / (sqrt(nu_hat) + eps); eps = 1e-8 is below the resolution and
\* only keeps 0 / (0 + eps) at 0
AdamDir(mu, nu, t) ==
  IF nu = NuNaN THEN NaN
  ELSE LET mu_hat == FDiv(mu, SCALE - B1Pow(t))
           nu_hat == (nu * 1000) \div (1000000 - B2Pow(t))
           den == ISqrtIter(nu_hat, 0, 2000)
       IN IF den = 0 THEN FMul(mu_hat, 0) ELSE FDiv(mu_hat, den)

\* add_decayed_weights(1e-4)
Decay(p) == IF IsFinite(p) THEN DivT(p, 10000) ELSE p

\* the chain's update: (updates, new opt_state), and what entered each stage
ChainUpdate(tx, grads, opt_state, params) ==
  LET n == Len(grads)
      clip_in == zero_nans(grads)
      adam_in == clip_by_global_norm(clip_in, tx.max_norm)
      count == opt_state.count + 1
      mu == [i \in 1..n |-> AdamMu(opt_state.mu[i], adam_in[i])]
      nu == [i \in 1..n |-> AdamNu(opt_state.nu[i], adam_in[i])]
      updates == [i \in 1..n |->
                    FMul(FAdd(AdamDir(mu[i], nu[i], count), Decay(params[i])),
                         -tx.lr)]
  IN [raised |-> FALSE, updates |-> updates,
      opt_state |-> [none |-> FALSE,
                     found_nan |-> \E i \in 1..n : IsNaN(grads[i]),
                     count |-> count, mu |-> mu, nu |-> nu],
      clip_in |-> clip_in, adam_in |-> adam_in]

\* a target optimizer that applies the gradients it is given
NoopUpdate_Sgd(tx, grads, opt_state, params) ==
  [raised |-> FALSE, updates |-> [i \in 1..Len(grads) |-> FNeg(grads[i])],
   opt_state |-> opt_state, clip_in |-> <<>>, adam_in |-> <<>>]

\* the target head's update function `lambda _: None` takes one argument and
\* returns None: apply_gradients calls it with three and unpacks a pair, so
\* the call raises and no new TrainState is produced
NoopUpdate(tx, grads, opt_state, params) ==
  [raised |-> TRUE, updates |-> <<>>, opt_state |-> opt_state,
   clip_in |-> <<>>, adam_in |-> <<>>]

TxUpdate(tx, grads, opt_state, params) ==
  IF tx.kind = "chain" THEN ChainUpdate(tx, grads, opt_state, params)
  ELSE NoopUpdate(tx, grads, opt_state, params)

\* optax.apply_updates
apply_updates(params, updates) ==
  [i \in 1..Len(params) |-> FAdd(params[i], updates[i])]

\* TrainState.apply_gradients(grads=grads)
apply_gradients(ts, grads) ==
  LET r == TxUpdate(ts.tx, grads, ts.opt_state, ts.params)
  IN IF r.raised THEN ts
     ELSE [ts EXCEPT !.step = @ + 1,
                     !.params = apply_updates(ts.params, r.updates),
                     !.opt_state = r.opt_state]

Heads == {"dynamics_model", "reward_model", "policy_model", "value_model",
          "target_value_model", "continue_model"}

\* gradients the trainer passes: small, large (clipped), with a NaN, with an inf
GradSet(n) ==
  {[i \in 1..n |-> IF i % 2 = 1 THEN g[1] ELSE g[2]] :
     g \in {<<30, -40>>, <<300, 400>>, <<NaN, 100>>, <<PInf, 100>>}}

GradStep ==
  /\ pc = "ready"
  /\ nsteps < MaxSteps
  /\ \E h \in Heads :
       /\ wm[h].tx.kind # "none"
       /\ \E grads \in GradSet(Len(wm[h].params)) :
            LET r == TxUpdate(wm[h].tx, grads, wm[h].opt_state, wm[h].params)
            IN /\ wm' = [wm EXCEPT ![h] = apply_gradients(wm[h], grads)]
               /\ ret' = [op |-> "grad", head |-> h, raised |-> r.raised,
                          grads |-> grads, clip_in |-> r.clip_in,
                          adam_in |-> r.adam_in]
  /\ nsteps' = nsteps + 1
  /\ UNCHANGED <<pc, z, ema_applied>>

\* the trainer's target update: optax.incremental_update(live, target, tau),
\* target <- tau * live + (1 - tau) * target
incremental_update(new, old, tau) ==
  [i \in 1..Len(new) |-> FAdd(FMul(tau, new[i]), FMul(SCALE - tau, old[i]))]

Taus == {SCALE \div 2, SCALE}

EMAUpdate ==
  /\ pc = "ready"
  /\ nsteps < MaxSteps
  /\ \E tau \in Taus :
       /\ wm' = [wm EXCEPT !.target_value_model.params =
                   incremental_update(wm.value_model.params, @, tau)]
       /\ ret' = [op |-> "ema", tau |-> tau, raised |-> FALSE,
                  was_synced |-> wm.target_value_model.params = wm.value_model.params]
  /\ nsteps' = nsteps + 1
  /\ ema_applied' = TRUE
  /\ UNCHANGED <<pc, z>>

\* training starts from a freshly created model; the steps read no dimension
\* of the configuration, so the largest one stands for all
TrainConfigs ==
  {cfg \in Configs : cfg.latent_dim = MaxLatent /\ cfg.num_bins = MaxBins /\ cfg.symlog_obs}

InitTrain ==
  /\ pc = "ready"
  /\ \E cfg \in TrainConfigs, key \in Keys :
       /\ wm = create(cfg, EncoderState(cfg.latent_dim), key)
       /\ ret = [op |-> "create", cfg |-> cfg, key |-> key]
  /\ z = <<>>
  /\ nsteps = 0
  /\ ema_applied = FALSE

NextTrain == GradStep \/ EMAUpdate

SpecTrain == InitTrain /\ [][NextTrain]_vars

-----------------------------------------------------------------------------
(* Properties.                                                             *)

FiveOps == {"encode", "next", "reward", "sample_actions", "V"}

Synced == wm.target_value_model.params = wm.value_model.params

\* v is a concatenation of blocks of d entries, each non-negative and summing
\* to 1 up to the rounding of its d entries
SimplexBlocks(v, d) ==
  /\ Len(v) % d = 0
  /\ \A b \in 0..(Len(v) \div d - 1) :
       /\ \A i \in 1..d : v[b * d + i] >= 0
       /\ Abs(SumSeq(SubSeq(v, b * d + 1, b * d + d)) - SCALE) <= d

\* C1: create fails for every configuration whose latent_dim is not divisible
\* by simnorm_dim or whose num_bins is below 2, so no constructed model has
\* such a configuration.
C1_CreateRejectsInvalid ==
  pc = "ready" => (wm.latent_dim % wm.simnorm_dim = 0 /\ wm.num_bins >= 2)

\* C2: with latent_dim divisible by simnorm_dim, the latent returned by
\* encode and by every next of a rollout has length latent_dim and consists
\* of blocks of simnorm_dim non-negative entries summing to 1.
C2_SimplexRollout ==
  (pc = "ready" /\ ret.op \in {"encode", "next"}
     /\ wm.latent_dim % wm.simnorm_dim = 0)
  => /\ ~ret.raised
     /\ Len(ret.z) = wm.latent_dim
     /\ SimplexBlocks(ret.z, wm.simnorm_dim)
     /\ z = ret.z

C2_Witness ==
  /\ pc = "ready" /\ ret.op = "next" /\ ~ret.raised
  /\ Len(ret.z) = 2 * wm.simnorm_dim
  /\ ret.z[1] # ret.z[2]

\* C3: the scalar returned by reward is the codec's decoding of the logits
\* returned with it under the model's (symlog_min, symlog_max, num_bins), and
\* each value returned by V is the decoding of that member's returned logits.
C3_ScalarDecodesLogits ==
  /\ (pc = "ready" /\ ret.op = "reward")
       => ret.reward = two_hot_inv(ret.logits, wm.symlog_min, wm.symlog_max, wm.num_bins)
  /\ (pc = "ready" /\ ret.op = "V")
       => /\ Len(ret.V) = wm.num_value_nets
          /\ Len(ret.logits) = wm.num_value_nets
          /\ \A m \in 1..wm.num_value_nets :
               ret.V[m] = two_hot_inv(ret.logits[m], wm.symlog_min,
                                      wm.symlog_max, wm.num_bins)

C3_Witness ==
  /\ pc = "ready" /\ ret.op = "reward"
  /\ wm.num_bins >= 2
  /\ ret.logits[1] # ret.logits[2]
  /\ ret.reward # 0

\* C4: with std_scale = 0 the returned action equals the returned
\* (tanh-squashed) mean, and a call that differs only in the key returns the
\* same action.
C4_ZeroScaleDeterministic ==
  (pc = "ready" /\ ret.op = "sample_actions" /\ ret.std_scale = 0)
  => /\ AllFinite(ret.action)
     /\ ret.action = ret.mean
     /\ \A k \in Keys :
          sample_actions(wm, z, ret.params, 0, k).action = ret.action

C4_Witness ==
  /\ pc = "ready" /\ ret.op = "sample_actions" /\ ret.std_scale = 0
  /\ Noise(ret.key, 1) # 0
  /\ ret.mean[1] # 0
  /\ \E k \in Keys : Noise(k, 1) # Noise(ret.key, 1)

\* C5: immediately after create returns, the target value head's parameters
\* equal the live value ensemble's parameters.
C5_TargetCopiesLive ==
  (pc = "ready" /\ ret.op = "create")
  => /\ Synced
     /\ Len(wm.target_value_model.params) = PDim * wm.num_value_nets

C5_Witness ==
  /\ pc = "ready" /\ ret.op = "create"
  /\ \E i \in 1..Len(wm.value_model.params) : wm.value_model.params[i] # 0

\* C6 as stated: once an EMA update has been applied the model is Diverged
\* (target differs from live) and never Synced again.
C6_DivergedNeverSynced ==
  (pc = "ready" /\ ema_applied) => ~Synced

\* C6 amended: an EMA update with tau = 1 makes the target equal to the live
\* parameters (so a model can return to Synced), and a gradient step on any
\* head other than the live value ensemble never changes whether the target
\* equals the live parameters.
C6_SyncTransitions ==
  [][/\ (ret'.op = "ema" /\ ret'.tau = SCALE) => Synced'
     /\ (ret'.op = "grad" /\ ret'.head # "value_model") => (Synced' <=> Synced)]_vars

C6_Witness ==
  /\ pc = "ready" /\ ret.op = "ema" /\ ret.tau = SCALE
  /\ ~ret.was_synced
  /\ Synced

C9_NonFiniteNeverReachesUpdate ==
  (pc = "ready" /\ ret.op = "grad" /\ ~ret.raised)
  => /\ AllFinite(ret.clip_in)
     /\ AllFinite(ret.adam_in)
     /\ AllFinite(wm[ret.head].params)

\* C10: with std_scale = 0 the returned log_prob is +infinity or a sentinel,
\* never NaN.
C10_LogProbDefined ==
  (pc = "ready" /\ ret.op = "sample_actions" /\ ret.std_scale = 0)
  => ~IsNaN(ret.log_probs)

====
